---- MODULE Spec2Model ----
(***************************************************************************)
(* jiraattach: upload a file as an attachment of a Jira issue and then     *)
(* post a comment that links to it.                                        *)
(*                                                                         *)
(* The repository holds two programs, both `package main` with a `run`:    *)
(*   src/main.go           upload only                                     *)
(*   src/unnamed/part_000  upload, then comment (-no-comment to skip)      *)
(* One run of one of them is modelled per behaviour; `program` says which. *)
(* Strings whose characters matter (auth) are sequences of one-character   *)
(* strings; the others are TLA+ strings.                                   *)
(***************************************************************************)
EXTENDS Integers, Sequences, FiniteSets, TLC

VARIABLES program, args, nocomment, configFile, pc, config, calls,
          uploadResp, commentResp, attachment, result, stderr, exitCode,
          trace

vars == <<program, args, nocomment, configFile, pc, config, calls,
          uploadResp, commentResp, attachment, result, stderr, exitCode,
          trace>>

(* ------------------------------ bounds --------------------------------- *)
\* longest auth string of a config file
MaxAuthLen == 4
\* most attachment records in one upload response
MaxAttachments == 2

(* ------------------------- the run's environment ----------------------- *)
Programs == {"main.go", "part_000"}
Keys == {"PROJ-12", "OPS-7"}
\* paths a run may be given, and those of them os.Open can open
Paths == {"report.txt", "missing.txt"}
ReadablePaths == {"report.txt"}
\* "" has no scheme (client.Do refuses it), ":" does not parse as a URL
JiraURLs == {"https://x.test", "", ":"}
AuthChars == {"a", ":"}
\* http.StatusOK and http.StatusCreated
StatusOK == 200
StatusCreated == 201
StatusCodes == {StatusOK, StatusCreated, 404}
Filenames == {"report.txt", ""}
ContentURLs == {"https://x.test/secure/attachment/1/report.txt"}

\* all sequences over S of length at most n
RECURSIVE SeqsUpTo(_, _)
SeqsUpTo(S, n) ==
  IF n = 0 THEN {<<>>}
  ELSE LET shorter == SeqsUpTo(S, n - 1)
       IN shorter \cup {Append(s, x) : s \in {t \in shorter : Len(t) = n - 1}, x \in S}

AuthStrings == SeqsUpTo(AuthChars, MaxAuthLen)

\* the positional arguments left after flag parsing: fs.Args()
ArgLists == {<<>>} \cup {<<k>> : k \in Keys} \cup {<<k, p>> : k \in Keys, p \in Paths}

Attachment == [content : ContentURLs, filename : Filenames]
NoAttachment == [content |-> "", filename |-> ""]

Config == [JiraURL : JiraURLs, Auth : AuthStrings]
ZeroConfig == [JiraURL |-> "", Auth |-> <<>>]

\* what is at the config path: nothing readable, bytes that are not the
\* JSON of a Config, or the JSON of a Config
ConfigFiles ==
  {[status |-> s, content |-> ZeroConfig] : s \in {"missing", "malformed"}}
    \cup {[status |-> "ok", content |-> c] : c \in Config}

\* a response body as the server sent it, classified by what
\* json.Unmarshal into []Attachment makes of it
Bodies ==
  {[json |-> j, elems |-> <<>>] : j \in {"invalid", "object", "null"}}
    \cup {[json |-> "array", elems |-> e] : e \in SeqsUpTo(Attachment, MaxAttachments)}
CommentBodies == {[json |-> j, elems |-> <<>>] : j \in {"invalid", "object"}}

NoResp == [kind |-> "none", status |-> 0, readOK |-> FALSE, body |-> [json |-> "invalid", elems |-> <<>>]]
TransportError == [kind |-> "error", status |-> 0, readOK |-> FALSE, body |-> [json |-> "invalid", elems |-> <<>>]]
Response(s, r, b) == [kind |-> "response", status |-> s, readOK |-> r, body |-> b]

(* ------------------------------ errors --------------------------------- *)
Nil == [msg |-> "nil"]
Running == [msg |-> "running"]
Errorf(m) == [msg |-> m]
\* %v of a []byte prints the bytes as a list of decimal numbers
FmtV(bytes) == [verb |-> "%v", bytes |-> bytes]
StatusError(m, code, respbody) == [msg |-> m, status_code |-> code, respbody |-> FmtV(respbody)]

(* --------------------------- pure helpers ------------------------------ *)
Contains(s, c) == \E i \in 1..Len(s) : s[i] = c

Index(s, c) == CHOOSE i \in 1..Len(s) : s[i] = c /\ \A j \in 1..(i - 1) : s[j] # c

RECURSIVE Split(_, _)
Split(s, c) ==
  IF ~Contains(s, c) THEN <<s>>
  ELSE <<SubSeq(s, 1, Index(s, c) - 1)>> \o Split(SubSeq(s, Index(s, c) + 1, Len(s)), c)

BasicAuth(auth) ==
  IF Contains(auth, ":")
  THEN [user |-> Split(auth, ":")[1], pass |-> Split(auth, ":")[2]]
  ELSE [user |-> <<>>, pass |-> <<>>]

AttachURL(baseurl, key) == baseurl \o "/rest/api/2/issue/" \o key \o "/attachments"
CommentURL(baseurl, key) == baseurl \o "/rest/api/2/issue/" \o key \o "/comment"

\* http.NewRequest fails when the URL does not parse
NewRequestFails(baseurl) == baseurl = ":"

\* what client.Do can return for a request to a URL under baseurl
DoOutcomes(baseurl, bodies) ==
  IF baseurl = "" THEN {TransportError}
  ELSE {TransportError}
         \cup {Response(s, r, b) : s \in StatusCodes, r \in BOOLEAN, b \in bodies}

\* mutant of CommentMsg: the two fields in the wrong places
CommentMsg_Swapped(att) == "File attached: [" \o att.content \o "|" \o att.filename \o "]"

CommentMsg(att) == "File attached: [" \o att.filename \o "|" \o att.content \o "]"

\* json.Unmarshal(respbody, &attachments): the decoded slice, or an error
Unmarshal(body) ==
  CASE body.json = "array" -> [err |-> Nil, attachments |-> body.elems]
    [] body.json = "null" -> [err |-> Nil, attachments |-> <<>>]
    [] OTHER -> [err |-> Errorf("json: cannot unmarshal"), attachments |-> <<>>]

\* mutant of AttachResult: the len(attachments) < 1 check left out, so an
\* empty array yields a zero Attachment and no error
AttachResult_NoEmptyCheck(resp) ==
  IF resp.status = StatusOK
  THEN IF ~resp.readOK
       THEN [att |-> NoAttachment, err |-> Errorf("error reading response body")]
       ELSE IF Unmarshal(resp.body).err # Nil
       THEN [att |-> NoAttachment, err |-> Unmarshal(resp.body).err]
       ELSE IF Len(Unmarshal(resp.body).attachments) < 1
       THEN [att |-> NoAttachment, err |-> Nil]
       ELSE [att |-> Unmarshal(resp.body).attachments[1], err |-> Nil]
  ELSE IF ~resp.readOK
       THEN [att |-> NoAttachment, err |-> Errorf("error reading error-response body")]
       ELSE [att |-> NoAttachment,
             err |-> StatusError("failed to add attachment", resp.status, resp.body)]

\* jiraAttachFile from the switch on resp.StatusCode to its return
AttachResult(resp) ==
  IF resp.status = StatusOK
  THEN IF ~resp.readOK
       THEN [att |-> NoAttachment, err |-> Errorf("error reading response body")]
       ELSE IF Unmarshal(resp.body).err # Nil
       THEN [att |-> NoAttachment, err |-> Unmarshal(resp.body).err]
       ELSE IF Len(Unmarshal(resp.body).attachments) < 1
       THEN [att |-> NoAttachment, err |-> Errorf("failed to add attachment for unknown reason")]
       ELSE [att |-> Unmarshal(resp.body).attachments[1], err |-> Nil]
  ELSE IF ~resp.readOK
       THEN [att |-> NoAttachment, err |-> Errorf("error reading error-response body")]
       ELSE [att |-> NoAttachment,
             err |-> StatusError("failed to add attachment", resp.status, resp.body)]

\* mutant of CommentResult: 200 taken for the success status, as in the upload
CommentResult_Expect200(resp) ==
  IF resp.status = StatusOK THEN Nil
  ELSE IF ~resp.readOK THEN Errorf("error reading error-response body")
  ELSE StatusError("failed to add comment", resp.status, resp.body)

\* mutant of CommentResult: every status below 300 taken for success
CommentResult_Any2xx(resp) ==
  IF resp.status < 300 THEN Nil
  ELSE IF ~resp.readOK THEN Errorf("error reading error-response body")
  ELSE StatusError("failed to add comment", resp.status, resp.body)

\* jiraComment from the switch on resp.StatusCode to its return
CommentResult(resp) ==
  IF resp.status = StatusCreated THEN Nil
  ELSE IF ~resp.readOK THEN Errorf("error reading error-response body")
  ELSE StatusError("failed to add comment", resp.status, resp.body)

\* src/main.go run from the switch on resp.StatusCode to its return
MainGoResult(resp) ==
  IF resp.status = StatusOK THEN [err |-> Nil, printed |-> <<>>]
  ELSE [err |-> IF resp.readOK THEN Nil ELSE Errorf("error reading error-response body"),
        printed |-> <<[msg |-> "request failed with status code", status_code |-> resp.status]>>]

\* the request handed to client.Do
Request(endpoint, url, key, auth, contentType, body) ==
  [endpoint |-> endpoint, method |-> "POST", url |-> url, key |-> key,
   contentType |-> contentType, token |-> "nocheck",
   user |-> BasicAuth(auth).user, pass |-> BasicAuth(auth).pass, body |-> body]

\* the multipart body createFileBody builds for a readable path
FileBody(path) == [field |-> "file", filename |-> path]

Step(name, ok) == [step |-> name, ok |-> ok]

(* ------------------------------ state ---------------------------------- *)
TypeOK ==
  /\ program \in Programs
  /\ args \in ArgLists
  /\ nocomment \in BOOLEAN
  /\ configFile \in ConfigFiles
  /\ pc \in {"args", "loadConfig", "createFileBody", "attachRequest", "attachResponse",
             "nocomment", "commentRequest", "commentResponse", "returned", "exited"}
  /\ config \in Config
  /\ Len(calls) <= 2
  /\ exitCode \in {-1, 0, 1}

Init ==
  /\ program \in Programs
  /\ args \in ArgLists
  /\ nocomment \in BOOLEAN
  /\ program = "main.go" => nocomment = FALSE
  /\ configFile \in ConfigFiles
  /\ pc = "args"
  /\ config = ZeroConfig
  /\ calls = <<>>
  /\ uploadResp = NoResp
  /\ commentResp = NoResp
  /\ attachment = NoAttachment
  /\ result = Running
  /\ stderr = <<>>
  /\ exitCode = -1
  /\ trace = <<>>

\* run returns e after performing the steps `steps`
Return(e, steps) ==
  /\ result' = e
  /\ pc' = "returned"
  /\ trace' = trace \o steps

\* run goes on to `next` after performing the steps `steps`
Goto(next, steps) ==
  /\ pc' = next
  /\ trace' = trace \o steps
  /\ UNCHANGED result

(* --------------------- src/unnamed/part_000: run ----------------------- *)
run_args ==
  /\ program = "part_000" /\ pc = "args"
  /\ IF Len(args) < 2
     THEN Return(Errorf("key and path are required"), <<>>)
     ELSE Goto("loadConfig", <<>>)
  /\ UNCHANGED <<program, args, nocomment, configFile, config, calls, uploadResp,
                 commentResp, attachment, stderr, exitCode>>

\* loadConfig(path): the Config read, or Config{} and an error
loadConfig ==
  CASE configFile.status = "missing" ->
         [config |-> ZeroConfig, err |-> Errorf("unable to read config file")]
    [] configFile.status = "malformed" ->
         [config |-> ZeroConfig, err |-> Errorf("failed to decode config")]
    [] OTHER -> [config |-> configFile.content, err |-> Nil]

\* config, err := loadConfig(*configpath); err is not looked at before
\* jiraAttachFile overwrites it
run_loadConfig ==
  /\ program = "part_000" /\ pc = "loadConfig"
  /\ config' = loadConfig.config
  /\ Goto("createFileBody", <<Step("loadConfig", loadConfig.err = Nil)>>)
  /\ UNCHANGED <<program, args, nocomment, configFile, calls, uploadResp,
                 commentResp, attachment, stderr, exitCode>>

\* mutant of jiraAttachFile_createFileBody: the error of os.Open is not checked
jiraAttachFile_createFileBody_Unchecked ==
  /\ program = "part_000" /\ pc = "createFileBody"
  /\ Goto("attachRequest", <<Step("openFile", args[2] \in ReadablePaths)>>)
  /\ UNCHANGED <<program, args, nocomment, configFile, config, calls, uploadResp,
                 commentResp, attachment, stderr, exitCode>>

\* jiraAttachFile: createFileBody(filepath)
jiraAttachFile_createFileBody ==
  /\ program = "part_000" /\ pc = "createFileBody"
  /\ IF args[2] \notin ReadablePaths
     THEN Return(Errorf("error reading attachment"), <<Step("openFile", FALSE)>>)
     ELSE Goto("attachRequest", <<Step("openFile", TRUE)>>)
  /\ UNCHANGED <<program, args, nocomment, configFile, config, calls, uploadResp,
                 commentResp, attachment, stderr, exitCode>>

\* jiraAttachFile: http.NewRequest, headers, basic auth, httpclient.Do
jiraAttachFile_Do ==
  /\ program = "part_000" /\ pc = "attachRequest"
  /\ IF NewRequestFails(config.JiraURL)
     THEN /\ Return(Errorf("error creating request"), <<Step("upload", FALSE)>>)
          /\ UNCHANGED <<calls, uploadResp>>
     ELSE /\ calls' = Append(calls, Request("attachments", AttachURL(config.JiraURL, args[1]),
                                            args[1], config.Auth, "multipart/form-data",
                                            FileBody(args[2])))
          /\ \E r \in DoOutcomes(config.JiraURL, Bodies) :
               /\ uploadResp' = r
               /\ IF r.kind = "error"
                  THEN Return(Errorf("error sending request"), <<Step("upload", FALSE)>>)
                  ELSE Goto("attachResponse", <<>>)
  /\ UNCHANGED <<program, args, nocomment, configFile, config,
                 commentResp, attachment, stderr, exitCode>>

\* jiraAttachFile: the response is read and decoded; run checks the error
jiraAttachFile_response ==
  /\ program = "part_000" /\ pc = "attachResponse"
  /\ attachment' = AttachResult(uploadResp).att
  /\ IF AttachResult(uploadResp).err # Nil
     THEN Return(AttachResult(uploadResp).err, <<Step("upload", FALSE)>>)
     ELSE Goto("nocomment", <<Step("upload", TRUE)>>)
  /\ UNCHANGED <<program, args, nocomment, configFile, config, calls, uploadResp,
                 commentResp, stderr, exitCode>>

\* mutant of run_nocomment: the flag is not looked at
run_nocomment_Ignored ==
  /\ program = "part_000" /\ pc = "nocomment"
  /\ Goto("commentRequest", <<>>)
  /\ UNCHANGED <<program, args, nocomment, configFile, config, calls, uploadResp,
                 commentResp, attachment, stderr, exitCode>>

\* if *nocomment { return nil }
run_nocomment ==
  /\ program = "part_000" /\ pc = "nocomment"
  /\ IF nocomment THEN Return(Nil, <<>>) ELSE Goto("commentRequest", <<>>)
  /\ UNCHANGED <<program, args, nocomment, configFile, config, calls, uploadResp,
                 commentResp, attachment, stderr, exitCode>>

\* jiraComment: json.Marshal, http.NewRequest, headers, basic auth, httpclient.Do
jiraComment_Do ==
  /\ program = "part_000" /\ pc = "commentRequest"
  /\ IF NewRequestFails(config.JiraURL)
     THEN /\ Return(Errorf("error creating request"), <<Step("comment", FALSE)>>)
          /\ UNCHANGED <<calls, commentResp>>
     ELSE /\ calls' = Append(calls, Request("comment", CommentURL(config.JiraURL, args[1]),
                                            args[1], config.Auth, "application/json",
                                            [body |-> CommentMsg(attachment)]))
          /\ \E r \in DoOutcomes(config.JiraURL, CommentBodies) :
               /\ commentResp' = r
               /\ IF r.kind = "error"
                  THEN Return(Errorf("error sending request"), <<Step("comment", FALSE)>>)
                  ELSE Goto("commentResponse", <<>>)
  /\ UNCHANGED <<program, args, nocomment, configFile, config,
                 uploadResp, attachment, stderr, exitCode>>

\* jiraComment: the status decides; run returns what jiraComment returns
jiraComment_response ==
  /\ program = "part_000" /\ pc = "commentResponse"
  /\ Return(CommentResult(commentResp), <<Step("comment", CommentResult(commentResp) = Nil)>>)
  /\ UNCHANGED <<program, args, nocomment, configFile, config, calls, uploadResp,
                 commentResp, attachment, stderr, exitCode>>

\* main: print the error and exit 1, or fall off the end (exit 0)
main ==
  /\ program = "part_000" /\ pc = "returned"
  /\ pc' = "exited"
  /\ IF result # Nil
     THEN stderr' = Append(stderr, result) /\ exitCode' = 1
     ELSE stderr' = stderr /\ exitCode' = 0
  /\ UNCHANGED <<program, args, nocomment, configFile, config, calls, uploadResp,
                 commentResp, attachment, result, trace>>

(* --------------------------- src/main.go: run -------------------------- *)
mainGo_run_args ==
  /\ program = "main.go" /\ pc = "args"
  /\ IF Len(args) < 2
     THEN Return(Errorf("key and path are required"), <<>>)
     ELSE Goto("loadConfig", <<>>)
  /\ UNCHANGED <<program, args, nocomment, configFile, config, calls, uploadResp,
                 commentResp, attachment, stderr, exitCode>>

\* os.Open(*configpath) and json.NewDecoder(configfile).Decode(config),
\* each error returned at once
mainGo_run_config ==
  /\ program = "main.go" /\ pc = "loadConfig"
  /\ CASE configFile.status = "missing" ->
            /\ Return(Errorf("unable to open config file"), <<Step("loadConfig", FALSE)>>)
            /\ UNCHANGED config
       [] configFile.status = "malformed" ->
            /\ Return(Errorf("failed to read config file"), <<Step("loadConfig", FALSE)>>)
            /\ UNCHANGED config
       [] OTHER ->
            /\ config' = configFile.content
            /\ Goto("createFileBody", <<Step("loadConfig", TRUE)>>)
  /\ UNCHANGED <<program, args, nocomment, configFile, calls, uploadResp,
                 commentResp, attachment, stderr, exitCode>>

\* os.Open(filepath) and the multipart body
mainGo_run_file ==
  /\ program = "main.go" /\ pc = "createFileBody"
  /\ IF args[2] \notin ReadablePaths
     THEN Return(Errorf("error reading attachment"), <<Step("openFile", FALSE)>>)
     ELSE Goto("attachRequest", <<Step("openFile", TRUE)>>)
  /\ UNCHANGED <<program, args, nocomment, configFile, config, calls, uploadResp,
                 commentResp, attachment, stderr, exitCode>>

\* http.NewRequest, headers, basic auth, httpclient.Do
mainGo_run_Do ==
  /\ program = "main.go" /\ pc = "attachRequest"
  /\ IF NewRequestFails(config.JiraURL)
     THEN /\ Return(Errorf("error creating request"), <<Step("upload", FALSE)>>)
          /\ UNCHANGED <<calls, uploadResp>>
     ELSE /\ calls' = Append(calls, Request("attachments", AttachURL(config.JiraURL, args[1]),
                                            args[1], config.Auth, "multipart/form-data",
                                            FileBody(args[2])))
          /\ \E r \in DoOutcomes(config.JiraURL, Bodies) :
               /\ uploadResp' = r
               /\ IF r.kind = "error"
                  THEN Return(Errorf("error sending request"), <<Step("upload", FALSE)>>)
                  ELSE Goto("attachResponse", <<>>)
  /\ UNCHANGED <<program, args, nocomment, configFile, config,
                 commentResp, attachment, stderr, exitCode>>

\* the switch on resp.StatusCode: a status other than 200 is reported on
\* stderr, and run returns nil unless the body could not be read
mainGo_run_response ==
  /\ program = "main.go" /\ pc = "attachResponse"
  /\ stderr' = stderr \o MainGoResult(uploadResp).printed
  /\ Return(MainGoResult(uploadResp).err, <<Step("upload", uploadResp.status = StatusOK)>>)
  /\ UNCHANGED <<program, args, nocomment, configFile, config, calls, uploadResp,
                 commentResp, attachment, exitCode>>

mainGo_main ==
  /\ program = "main.go" /\ pc = "returned"
  /\ pc' = "exited"
  /\ IF result # Nil
     THEN stderr' = Append(stderr, result) /\ exitCode' = 1
     ELSE stderr' = stderr /\ exitCode' = 0
  /\ UNCHANGED <<program, args, nocomment, configFile, config, calls, uploadResp,
                 commentResp, attachment, result, trace>>

(* --------------------------- specification ----------------------------- *)
Next ==
  \/ run_args
  \/ run_loadConfig
  \/ jiraAttachFile_createFileBody
  \/ jiraAttachFile_Do
  \/ jiraAttachFile_response
  \/ run_nocomment
  \/ jiraComment_Do
  \/ jiraComment_response
  \/ main
  \/ mainGo_run_args
  \/ mainGo_run_config
  \/ mainGo_run_file
  \/ mainGo_run_Do
  \/ mainGo_run_response
  \/ mainGo_main

Spec == Init /\ [][Next]_vars

(* ------------------------- vocabulary of the claims -------------------- *)
\* run has returned
Done == pc \in {"returned", "exited"}

\* the indexes of the client.Do calls made for an endpoint
CallsTo(endpoint) == {i \in 1..Len(calls) : calls[i].endpoint = endpoint}

\* a path was given and os.Open cannot open it
FileUnreadable == Len(args) >= 2 /\ args[2] \notin ReadablePaths

\* the upload endpoint answered 200 with a JSON array of at least one record
UploadSucceeded ==
  /\ uploadResp.kind = "response" /\ uploadResp.status = 200 /\ uploadResp.readOK
  /\ uploadResp.body.json = "array" /\ Len(uploadResp.body.elems) >= 1

\* auth split on its first colon, as the specification words it
FirstColonSplit(auth) ==
  IF \E i \in 1..Len(auth) : auth[i] = ":"
  THEN LET i == CHOOSE k \in 1..Len(auth) : auth[k] = ":" /\ \A j \in 1..(k - 1) : auth[j] # ":"
       IN [user |-> SubSeq(auth, 1, i - 1), pass |-> SubSeq(auth, i + 1, Len(auth))]
  ELSE [user |-> <<>>, pass |-> <<>>]

(* ------------------------------- claims -------------------------------- *)

\* C1: a run whose config file is missing, unreadable or not valid JSON
\* returns a non-nil error and makes no call to the HTTP client.
C1_ConfigFailureMakesNoCall ==
  configFile.status # "ok" =>
    /\ Len(calls) = 0
    /\ Done => result # Nil

\* C2: when the upload endpoint answers (status and body received) with a
\* status other than 200, run returns a non-nil error that carries the
\* status code and the response body, and the comment endpoint is not called.
C2_UploadRejectedIsAnError ==
  (Done /\ uploadResp.kind = "response" /\ uploadResp.status # 200 /\ uploadResp.readOK) =>
    /\ result # Nil
    /\ DOMAIN result = {"msg", "status_code", "respbody"}
    /\ result.status_code = uploadResp.status
    /\ result.respbody.bytes = uploadResp.body
    /\ CallsTo("comment") = {}

\* C3: (src/unnamed/part_000) when the upload endpoint answers 200 with a
\* JSON array of zero elements, run returns the error "failed to add
\* attachment for unknown reason" and the comment endpoint is not called.
C3_EmptyArrayIsAnError ==
  (/\ program = "part_000"
   /\ uploadResp.kind = "response" /\ uploadResp.status = 200 /\ uploadResp.readOK
   /\ uploadResp.body.json = "array" /\ uploadResp.body.elems = <<>>) =>
    /\ CallsTo("comment") = {}
    /\ ~(pc \in {"nocomment", "commentRequest", "commentResponse"})
    /\ Done => result = [msg |-> "failed to add attachment for unknown reason"]

C3_Witness ==
  /\ program = "part_000" /\ pc = "exited"
  /\ uploadResp.kind = "response" /\ uploadResp.status = 200 /\ uploadResp.readOK
  /\ uploadResp.body.json = "array" /\ uploadResp.body.elems = <<>>
  /\ exitCode = 1

\* C4 as stated: a run whose attachment file cannot be opened returns the
\* file-open error and makes no call to the HTTP client.
C4_UnreadableFileIsFileOpenError ==
  FileUnreadable =>
    /\ Len(calls) = 0
    /\ Done => result = [msg |-> "error reading attachment"]

\* C4 amended: a run whose attachment file cannot be opened makes no call to
\* the HTTP client and returns the file-open error, except that run of
\* src/main.go, which reads the config first, returns the config error when
\* the config file cannot be opened or decoded.
C4_UnreadableFileEndsRunBeforeAnyCall ==
  FileUnreadable =>
    /\ Len(calls) = 0
    /\ Done => result # Nil
    /\ (Done /\ ~(program = "main.go" /\ configFile.status # "ok")) =>
         result = [msg |-> "error reading attachment"]
    /\ (Done /\ program = "main.go" /\ configFile.status # "ok") =>
         result.msg \in {"unable to open config file", "failed to read config file"}

C4_Witness ==
  /\ FileUnreadable /\ pc = "exited" /\ program = "part_000"
  /\ configFile.status = "missing"
  /\ result = [msg |-> "error reading attachment"]

\* C5: (src/unnamed/part_000) with -no-comment set and a successful upload,
\* run returns nil (exit code 0) and the comment endpoint is not called.
C5_NoCommentSkipsComment ==
  (program = "part_000" /\ nocomment /\ UploadSucceeded) =>
    /\ CallsTo("comment") = {}
    /\ Done => result = Nil
    /\ pc = "exited" => exitCode = 0

C5_Witness ==
  /\ program = "part_000" /\ nocomment /\ UploadSucceeded
  /\ pc = "exited" /\ exitCode = 0 /\ Len(calls) = 1

\* C6: with a valid config and a readable file, an upload answered 200 with
\* at least one record followed by a comment answered 201 makes run return
\* nil (exit code 0) with nothing written to the error output.
C6_SuccessIsSilent ==
  (/\ Done /\ configFile.status = "ok" /\ ~FileUnreadable /\ UploadSucceeded
   /\ commentResp.kind = "response" /\ commentResp.status = 201) =>
    /\ result = Nil
    /\ stderr = <<>>
    /\ pc = "exited" => exitCode = 0

C6_Witness ==
  /\ pc = "exited" /\ configFile.status = "ok" /\ UploadSucceeded
  /\ commentResp.kind = "response" /\ commentResp.status = 201
  /\ Len(calls) = 2 /\ exitCode = 0

\* C7: the basic-auth credentials of every request are auth split on its
\* first colon: the user is the text before it, the password all the text
\* after it; without a colon both are empty.
C7_CredentialsSplitOnFirstColon ==
  \A i \in 1..Len(calls) :
    /\ calls[i].user = FirstColonSplit(config.Auth).user
    /\ calls[i].pass = FirstColonSplit(config.Auth).pass

\* C8: (src/unnamed/part_000) after a successful upload with comments not
\* skipped, a failure of the comment step (transport failure or a status
\* other than 201) makes run return that step's error, and the comment
\* request is the last request: one upload request, nothing after.
C8_CommentFailureIsReturned ==
  (/\ program = "part_000" /\ Done /\ UploadSucceeded /\ ~nocomment
   /\ \/ commentResp.kind = "error"
      \/ commentResp.kind = "response" /\ commentResp.status # 201) =>
    /\ result # Nil
    /\ commentResp.kind = "error" => result = [msg |-> "error sending request"]
    /\ (commentResp.kind = "response" /\ ~commentResp.readOK) =>
         result = [msg |-> "error reading error-response body"]
    /\ (commentResp.kind = "response" /\ commentResp.readOK) =>
         /\ DOMAIN result = {"msg", "status_code", "respbody"}
         /\ result.msg = "failed to add comment"
         /\ result.status_code = commentResp.status
         /\ result.respbody.bytes = commentResp.body
    /\ Len(calls) = 2
    /\ calls[1].endpoint = "attachments" /\ calls[2].endpoint = "comment"
    /\ pc = "exited" => exitCode = 1

C8_Witness ==
  /\ program = "part_000" /\ pc = "exited" /\ UploadSucceeded /\ ~nocomment
  /\ commentResp.kind = "response" /\ commentResp.status = 200 /\ commentResp.readOK
  /\ exitCode = 1

\* C9: (src/unnamed/part_000) a comment request targets the issue key of the
\* run's upload request, and its text is "File attached: [<filename>|<content>]"
\* with the fields of the first record of the upload response's array.
C9_CommentLinksFirstAttachment ==
  \A i \in CallsTo("comment") :
    /\ i = 2 /\ calls[1].endpoint = "attachments"
    /\ calls[i].key = calls[1].key
    /\ calls[i].url = config.JiraURL \o "/rest/api/2/issue/" \o calls[1].key \o "/comment"
    /\ UploadSucceeded
    /\ calls[i].body =
         [body |-> "File attached: [" \o uploadResp.body.elems[1].filename \o "|"
                     \o uploadResp.body.elems[1].content \o "]"]

C9_Witness ==
  /\ CallsTo("comment") # {}
  /\ Len(uploadResp.body.elems) >= 2
  /\ uploadResp.body.elems[1] # uploadResp.body.elems[2]

\* C10: the steps happen in the order load config, open file, upload,
\* comment, each at most once; the first step that fails ends the run with
\* that step's error; no request is retried, and the comment request is
\* sent only after the upload's response was received.
C10_StepsInOrderFirstFailureEndsRun ==
  /\ \A i \in 1..Len(trace) :
       trace[i].step = <<"loadConfig", "openFile", "upload", "comment">>[i]
  /\ \A i \in 1..(Len(trace) - 1) : trace[i].ok
  /\ (Done /\ \E i \in 1..Len(trace) : ~trace[i].ok) => result # Nil
  /\ Cardinality(CallsTo("attachments")) <= 1
  /\ Cardinality(CallsTo("comment")) <= 1
  /\ CallsTo("comment") # {} => uploadResp.kind = "response"

====
